---- MODULE Spec2Model ----
(***************************************************************************)
(* A model of postgresql-mcp.py: the configuration merge and retry loop of *)
(* get_connection, and the seven tool handlers (execute_query,             *)
(* list_tables, describe_table, list_schemas, create_table, insert_data,   *)
(* update_data) with their try / except Error / except Exception / finally *)
(* structure.  The psycopg2 driver is the environment: every driver call   *)
(* (connect, cursor, execute, executemany, fetchall, commit) either        *)
(* returns, raises psycopg2.Error, or raises some other exception.         *)
(*                                                                         *)
(* Text is modelled as sequences of one-character strings, so that         *)
(* str.lower, str.upper, str.strip, str.startswith and the `in` substring  *)
(* test are computed character by character as Python computes them.       *)
(* Python dicts are functions from a set of keys; dict objects live in a   *)
(* heap and are named by references, so that copy and alias differ.        *)
(***************************************************************************)
EXTENDS Integers, Sequences, FiniteSets, TLC

(***************************************************************************)
(* Bounds of the model.                                                    *)
(***************************************************************************)
NumCalls == 2          \* call slots (handler invocations in flight)
MaxRetryCount == 2     \* largest connect_retry_count a configuration carries
MaxRows == 1           \* largest row set / rowcount the driver reports
MaxBatch == 2          \* largest list of records given to insert_data
MaxFragments == 2      \* fragments concatenated into a driver error text

Calls == 1..NumCalls

(***************************************************************************)
(* Text: str.lower, str.upper, str.strip, str.startswith, `x in s`.        *)
(***************************************************************************)
UpperLetters == <<"A","B","C","D","E","F","G","H","I","J","K","L","M",
                  "N","O","P","Q","R","S","T","U","V","W","X","Y","Z">>
LowerLetters == <<"a","b","c","d","e","f","g","h","i","j","k","l","m",
                  "n","o","p","q","r","s","t","u","v","w","x","y","z">>
Whitespace == {" ", "\t", "\n", "\r"}

LowerChar(ch) ==
    IF \E i \in 1..26 : UpperLetters[i] = ch
    THEN LowerLetters[CHOOSE i \in 1..26 : UpperLetters[i] = ch]
    ELSE ch

UpperChar(ch) ==
    IF \E i \in 1..26 : LowerLetters[i] = ch
    THEN UpperLetters[CHOOSE i \in 1..26 : LowerLetters[i] = ch]
    ELSE ch

str_lower(s) == [i \in 1..Len(s) |-> LowerChar(s[i])]

str_upper(s) == [i \in 1..Len(s) |-> UpperChar(s[i])]

\* s.strip(): drop the leading and the trailing whitespace characters
str_strip(s) ==
    LET keep == {i \in 1..Len(s) : s[i] \notin Whitespace}
    IN  IF keep = {} THEN <<>>
        ELSE LET lo == CHOOSE i \in keep : \A j \in keep : i <= j
                 hi == CHOOSE i \in keep : \A j \in keep : j <= i
             IN  SubSeq(s, lo, hi)

\* s.startswith(p)
str_startswith(s, p) ==
    /\ Len(p) <= Len(s)
    /\ \A j \in 1..Len(p) : s[j] = p[j]

\* p in s
str_contains(s, p) ==
    \E i \in 0..(Len(s) - Len(p)) : \A j \in 1..Len(p) : s[i + j] = p[j]

kw_connection_refused == <<"c","o","n","n","e","c","t","i","o","n"," ","r","e","f","u","s","e","d">>
kw_password_authentication_failed == <<"p","a","s","s","w","o","r","d"," ","a","u","t","h","e","n","t","i","c","a","t","i","o","n"," ","f","a","i","l","e","d">>
kw_password == <<"p","a","s","s","w","o","r","d">>
kw_authentication_failed == <<"a","u","t","h","e","n","t","i","c","a","t","i","o","n"," ","f","a","i","l","e","d">>
kw_does_not_exist == <<"d","o","e","s"," ","n","o","t"," ","e","x","i","s","t">>
kw_database == <<"d","a","t","a","b","a","s","e">>
kw_SELECT == <<"S","E","L","E","C","T">>
kw_SHOW == <<"S","H","O","W">>
kw_DESCRIBE == <<"D","E","S","C","R","I","B","E">>
kw_EXPLAIN == <<"E","X","P","L","A","I","N">>
kw_column == <<"c","o","l","u","m","n">>
kw_relation == <<"r","e","l","a","t","i","o","n">>
kw_syntax_error == <<"s","y","n","t","a","x"," ","e","r","r","o","r">>
kw_permission_denied == <<"p","e","r","m","i","s","s","i","o","n"," ","d","e","n","i","e","d">>
kw_already_exists == <<"a","l","r","e","a","d","y"," ","e","x","i","s","t","s">>
kw_violates == <<"v","i","o","l","a","t","e","s">>
kw_constraint == <<"c","o","n","s","t","r","a","i","n","t">>
str_None == <<"N","o","n","e">>

(***************************************************************************)
(* Exceptions.  An exception is a record: its class ("Error" is            *)
(* psycopg2.Error, "Exception" any other exception, "None" the value None  *)
(* held by last_error before any failure), its text, and, for the          *)
(* exception get_connection raises, the fields its f-string message is     *)
(* built from: the retry count, the cause and the appended hint.           *)
(***************************************************************************)
NoneExc == [cls |-> "None", text |-> <<>>, attempts |-> -1, hint |-> "none"]

DriverError(text) == [cls |-> "Error", text |-> text, attempts |-> -1, hint |-> "none"]

OtherException(text) == [cls |-> "Exception", text |-> text, attempts |-> -1, hint |-> "none"]

\* the mutant of str: None is formatted as the empty text
str_empty_for_None(e) == e.text

\* str(e)
str(e) == IF e.cls = "None" THEN str_None ELSE e.text

(***************************************************************************)
(* dict operations                                                         *)
(***************************************************************************)
EmptyDict == [k \in {} |-> 0]

\* the mutant of dict_update: a key already present keeps its value
dict_update_keeps(d, other) ==
    [k \in (DOMAIN d) \cup (DOMAIN other) |->
        IF k \in DOMAIN d THEN d[k] ELSE other[k]]

\* d.update(other), as a value
dict_update(d, other) ==
    [k \in (DOMAIN d) \cup (DOMAIN other) |->
        IF k \in DOMAIN other THEN other[k] ELSE d[k]]

\* the value d.pop(key, default) returns
dict_pop_value(d, key, default) == IF key \in DOMAIN d THEN d[key] ELSE default

\* the mutant of dict_pop_rest: the key is read but not removed
dict_pop_rest_keeps(d, key) == d

\* what d.pop(key, default) leaves in d
dict_pop_rest(d, key) == [k \in (DOMAIN d) \ {key} |-> d[k]]

(***************************************************************************)
(* Configuration values.  Three keys stand for the seven of the profile:   *)
(* "connect_retry_count" (defaults, command line and per-call), "host"     *)
(* (defaults and per-call; an empty --host is falsy and never copied) and  *)
(* "user" (defaults only).                                                 *)
(***************************************************************************)
DefaultRetryCount == 3

RetryCounts == (0 - 1)..MaxRetryCount

\* DEFAULT_DB_CONFIG when POSTGRES_CONNECT_RETRY_COUNT is r (unset: "3")
DefaultConfig(r) ==
    [k \in {"host", "user", "connect_retry_count"} |->
        CASE k = "host" -> "localhost"
          [] k = "user" -> "postgres"
          [] k = "connect_retry_count" -> r]

\* the argparse namespaces: the flags given on the command line
CommandLines ==
    {[k \in ks |-> IF k = "host" THEN h ELSE r] :
        ks \in {{}, {"connect_retry_count"}, {"host", "connect_retry_count"}},
        h \in {""}, r \in {0, 1}}

\* `if args.x:` -- an empty string and the number 0 are not copied
Truthy(k, v) == IF k = "connect_retry_count" THEN v # 0 ELSE v # ""

\* get_config_from_args(): DEFAULT_DB_CONFIG.copy() updated with the flags given
get_config_from_args(default, ns) ==
    LET cmd_config == [k \in {x \in DOMAIN ns : Truthy(x, ns[x])} |-> ns[k]]
    IN  dict_update(default, cmd_config)

\* the db_config mappings a caller passes (None apart)
CallConfigs ==
    {[k \in ks |-> IF k = "host" THEN "callhost" ELSE r] :
        ks \in SUBSET {"host", "connect_retry_count"}, r \in RetryCounts}

(***************************************************************************)
(* The heap of dict objects and the references to them.                    *)
(***************************************************************************)
NoneRef == <<"None", 0>>
DefaultRef == <<"DEFAULT_DB_CONFIG", 0>>
GlobalRef == <<"GLOBAL_DB_CONFIG", 0>>
ArgRef(c) == <<"db_config argument", c>>
LocalRef(c) == <<"get_connection copy", c>>
ParamsRef(c) == <<"conn_params", c>>

Refs == {DefaultRef, GlobalRef}
          \cup {ArgRef(c) : c \in Calls}
          \cup {LocalRef(c) : c \in Calls}
          \cup {ParamsRef(c) : c \in Calls}

\* the mutant of dict_copy: no copy is made, the name is bound to the same object
dict_copy_alias(h, src, dst) == [ref |-> src, heap |-> h]

\* d.copy(): a new object dst holding the items of src
dict_copy(h, src, dst) == [ref |-> dst, heap |-> [h EXCEPT ![dst] = h[src]]]

(***************************************************************************)
(* State                                                                   *)
(***************************************************************************)
VARIABLES
    heap,               \* Refs -> dict: the dict objects
    GLOBAL_DB_CONFIG,   \* NoneRef, or the reference the module global holds
    startup,            \* history: the heap as initialised, never assigned again
    pc,                 \* per call: position in the handler
    args,               \* per call: the tool invoked and its arguments
    db_config,          \* per call: the db_config argument (a reference or NoneRef)
    passed,             \* per call, history: the items of db_config when it was passed
    cfg,                \* per call: get_connection's local db_config
    max_retries,        \* per call: get_connection's max_retries
    retry_count,        \* per call: get_connection's retry_count
    last_error,         \* per call: get_connection's last_error
    conn,               \* per call: the connection bound to the local `conn`
    cursor,             \* per call: "unbound", "open" or "closed"
    ip,                 \* per call: index of the next driver call of the body
    fetched,            \* per call: what the fetchall calls returned, in order
    result,             \* per call: what the handler call ended with
    log,                \* per call, history: the driver calls and prints made, in order
    raised              \* per call, history: the exception the driver raised last

vars == <<heap, GLOBAL_DB_CONFIG, startup, pc, args, db_config, passed,
          cfg, max_retries, retry_count, last_error, conn, cursor, ip, fetched,
          result, log, raised>>

config_vars == <<heap, GLOBAL_DB_CONFIG, startup>>

(***************************************************************************)
(* Driver error texts.                                                     *)
(***************************************************************************)
txt_refused == <<"C","o","n","n","e","c","t","i","o","n"," ","r","e","f","u","s","e","d">>
txt_auth == <<"F","A","T","A","L",":"," ","p","a","s","s","w","o","r","d"," ","a","u","t","h","e","n","t","i","c","a","t","i","o","n"," ","f","a","i","l","e","d">>
txt_nodb == <<"d","a","t","a","b","a","s","e"," ","\"","x","\""," ","d","o","e","s"," ","n","o","t"," ","e","x","i","s","t">>
txt_timeout == <<"t","i","m","e","o","u","t"," ","e","x","p","i","r","e","d">>
txt_norel == <<"r","e","l","a","t","i","o","n"," ","\"","f","o","o","\""," ","d","o","e","s"," ","n","o","t"," ","e","x","i","s","t">>
txt_denied == <<"p","e","r","m","i","s","s","i","o","n"," ","d","e","n","i","e","d">>
txt_other == <<"b","o","o","m">>

\* the texts of the psycopg2.Error a connect call raises
ConnectErrorTexts == {txt_refused, txt_auth, txt_nodb, txt_timeout}

\* the texts of the psycopg2.Error a cursor, execute, fetchall or commit call raises
StatementErrorTexts == {txt_norel, txt_denied}

(***************************************************************************)
(* get_connection: the diagnosis appended after the retries (lines 108-114)*)
(***************************************************************************)
\* the mutant of connection_diagnosis: the text is matched as it is, not lower-cased
connection_diagnosis_case_sensitive(text) ==
    IF str_contains(text, kw_connection_refused) THEN "host_port_timeout"
    ELSE IF str_contains(text, kw_password_authentication_failed) THEN "username"
    ELSE IF str_contains(text, kw_does_not_exist) /\ str_contains(text, kw_database)
         THEN "database"
    ELSE "none"

connection_diagnosis(text) ==
    LET low == str_lower(text)
    IN  IF str_contains(low, kw_connection_refused) THEN "host_port_timeout"
        ELSE IF str_contains(low, kw_password_authentication_failed) THEN "username"
        ELSE IF str_contains(low, kw_does_not_exist) /\ str_contains(low, kw_database)
             THEN "database"
        ELSE "none"

\* the mutant of ConnectionFailure: the count reported is one too many
ConnectionFailure_miscounts(count, last) ==
    [cls |-> "Exception", text |-> str(last), attempts |-> count + 1,
     hint |-> connection_diagnosis(str(last))]

\* Exception(error_message) of line 115
ConnectionFailure(count, last) ==
    [cls |-> "Exception", text |-> str(last), attempts |-> count,
     hint |-> connection_diagnosis(str(last))]

(***************************************************************************)
(* The handlers' except-Error diagnoses.                                   *)
(***************************************************************************)
\* the mutant of handler_diagnosis: execute_query tests its second rule first
handler_diagnosis_relation_first(h, text) ==
    LET low == str_lower(text)
        has(p) == str_contains(low, p)
    IN  CASE h = "execute_query" ->
                IF has(kw_relation) /\ has(kw_does_not_exist) THEN "table_missing"
                ELSE IF has(kw_column) /\ has(kw_does_not_exist) THEN "unknown_column"
                ELSE IF has(kw_syntax_error) THEN "syntax"
                ELSE "none"
          [] h = "list_tables" ->
                IF has(kw_permission_denied) THEN "permission" ELSE "none"
          [] h = "describe_table" ->
                IF has(kw_does_not_exist) THEN "table_missing"
                ELSE IF has(kw_permission_denied) THEN "permission"
                ELSE "none"
          [] h = "list_schemas" -> "none"
          [] h = "create_table" ->
                IF has(kw_already_exists) THEN "already_exists"
                ELSE IF has(kw_syntax_error) THEN "syntax"
                ELSE "none"
          [] h = "insert_data" ->
                IF has(kw_does_not_exist) THEN "table_missing"
                ELSE IF has(kw_violates) /\ has(kw_constraint) THEN "constraint"
                ELSE IF has(kw_column) /\ has(kw_does_not_exist) THEN "unknown_column"
                ELSE "none"
          [] h = "update_data" ->
                IF has(kw_does_not_exist) THEN "table_missing"
                ELSE IF has(kw_column) /\ has(kw_does_not_exist) THEN "unknown_column"
                ELSE IF has(kw_syntax_error) THEN "syntax"
                ELSE "none"

\* the mutant of handler_diagnosis: insert_data and update_data test the
\* column rule before the bare "does not exist" rule
handler_diagnosis_column_first(h, text) ==
    LET low == str_lower(text)
        has(p) == str_contains(low, p)
    IN  CASE h = "execute_query" ->
                IF has(kw_column) /\ has(kw_does_not_exist) THEN "unknown_column"
                ELSE IF has(kw_relation) /\ has(kw_does_not_exist) THEN "table_missing"
                ELSE IF has(kw_syntax_error) THEN "syntax"
                ELSE "none"
          [] h = "list_tables" ->
                IF has(kw_permission_denied) THEN "permission" ELSE "none"
          [] h = "describe_table" ->
                IF has(kw_does_not_exist) THEN "table_missing"
                ELSE IF has(kw_permission_denied) THEN "permission"
                ELSE "none"
          [] h = "list_schemas" -> "none"
          [] h = "create_table" ->
                IF has(kw_already_exists) THEN "already_exists"
                ELSE IF has(kw_syntax_error) THEN "syntax"
                ELSE "none"
          [] h = "insert_data" ->
                IF has(kw_column) /\ has(kw_does_not_exist) THEN "unknown_column"
                ELSE IF has(kw_does_not_exist) THEN "table_missing"
                ELSE IF has(kw_violates) /\ has(kw_constraint) THEN "constraint"
                ELSE "none"
          [] h = "update_data" ->
                IF has(kw_column) /\ has(kw_does_not_exist) THEN "unknown_column"
                ELSE IF has(kw_does_not_exist) THEN "table_missing"
                ELSE IF has(kw_syntax_error) THEN "syntax"
                ELSE "none"

handler_diagnosis(h, text) ==
    LET low == str_lower(text)
        has(p) == str_contains(low, p)
    IN  CASE h = "execute_query" ->
                IF has(kw_column) /\ has(kw_does_not_exist) THEN "unknown_column"
                ELSE IF has(kw_relation) /\ has(kw_does_not_exist) THEN "table_missing"
                ELSE IF has(kw_syntax_error) THEN "syntax"
                ELSE "none"
          [] h = "list_tables" ->
                IF has(kw_permission_denied) THEN "permission" ELSE "none"
          [] h = "describe_table" ->
                IF has(kw_does_not_exist) THEN "table_missing"
                ELSE IF has(kw_permission_denied) THEN "permission"
                ELSE "none"
          [] h = "list_schemas" -> "none"
          [] h = "create_table" ->
                IF has(kw_already_exists) THEN "already_exists"
                ELSE IF has(kw_syntax_error) THEN "syntax"
                ELSE "none"
          [] h = "insert_data" ->
                IF has(kw_does_not_exist) THEN "table_missing"
                ELSE IF has(kw_violates) /\ has(kw_constraint) THEN "constraint"
                ELSE IF has(kw_column) /\ has(kw_does_not_exist) THEN "unknown_column"
                ELSE "none"
          [] h = "update_data" ->
                IF has(kw_does_not_exist) THEN "table_missing"
                ELSE IF has(kw_column) /\ has(kw_does_not_exist) THEN "unknown_column"
                ELSE IF has(kw_syntax_error) THEN "syntax"
                ELSE "none"

(***************************************************************************)
(* The handlers' arguments.                                                *)
(***************************************************************************)
Handlers == {"execute_query", "list_tables", "describe_table", "list_schemas",
             "create_table", "insert_data", "update_data"}

NoneVal == "<None>"

q_select == <<"S","E","L","E","C","T"," ","1">>
q_select_lc == <<"s","e","l","e","c","t"," ","1">>
q_show == <<"S","h","o","w"," ","a","l","l">>
q_describe == <<"d","e","s","c","r","i","b","e"," ","t">>
q_explain == <<"E","X","P","L","A","I","N"," ","x">>
q_insert == <<"I","N","S","E","R","T">>
q_with == <<"W","I","T","H"," ","q">>
q_selec == <<"S","E","L","E","C">>
q_comment == <<"-","-","S","E","L","E","C","T">>

QueryPad == <<"\n", " ">>

Queries ==
    {<<>>, <<" ">>, QueryPad \o q_select_lc, QueryPad \o q_explain, QueryPad \o q_insert,
     q_select, q_select_lc, q_show, q_describe, q_explain,
     q_insert, q_with, q_selec, q_comment}

\* a value that is a dict (ks its keys in insertion order, d its items) or is
\* not one
Item(isdict, ks, d) == [is_dict |-> isdict, keys |-> ks, d |-> d]

Row(v) == Item(TRUE, <<"a">>, [k \in {"a"} |-> v])

\* a column definition of create_table
Col(name, type) == [k \in {"name", "type"} |-> IF k = "name" THEN name ELSE type]

NoColumns == [is_list |-> TRUE, items |-> <<>>]

ColumnLists ==
    {[is_list |-> l, items |-> i] :
        l \in BOOLEAN,
        i \in {<<>>, <<Col("id", "int")>>, <<Col("id", "int"), Col("", "text")>>,
               <<Col("id", "")>>}}

\* `data`: a single dict or a list of items
NoData == [shape |-> "list", items |-> <<>>]

InsertData ==
    {NoData,
     [shape |-> "dict", items |-> <<Item(TRUE, <<>>, EmptyDict)>>],
     [shape |-> "dict", items |-> <<Row(1)>>],
     [shape |-> "list", items |-> <<Row(1), Item(FALSE, <<>>, EmptyDict)>>]}
      \cup {[shape |-> "list", items |-> [i \in 1..n |-> Row(i)]] : n \in 1..MaxBatch}

UpdateData ==
    {NoData,
     [shape |-> "dict", items |-> <<Item(TRUE, <<>>, EmptyDict)>>],
     [shape |-> "dict", items |-> <<Row(1)>>],
     [shape |-> "list", items |-> <<Row(1)>>]}

\* `params`: None or a list
NoParams == [is_none |-> TRUE, items |-> <<>>]

ParamList(items) == [is_none |-> FALSE, items |-> items]

Request(h, t, q, cols, data, cond) ==
    [handler |-> h, table_name |-> t, query |-> q, columns |-> cols,
     data |-> data, condition |-> cond, params |-> NoParams]

Requests ==
    {Request("execute_query", "", q, NoColumns, NoData, "") : q \in Queries}
      \cup {Request(h, "", <<>>, NoColumns, NoData, "") :
              h \in {"list_tables", "list_schemas"}}
      \cup {Request("describe_table", t, <<>>, NoColumns, NoData, "") : t \in {"", "t"}}
      \cup {Request("create_table", t, <<>>, cols, NoData, "") :
              t \in {"", "t"}, cols \in ColumnLists}
      \cup {Request("insert_data", t, <<>>, NoColumns, d, "") :
              t \in {"", "t"}, d \in InsertData}
      \cup {Request("update_data", t, <<>>, NoColumns, d, cond) :
              t \in {"", "t"}, d \in UpdateData, cond \in {NoneVal, "", "id = 1"}}

\* `not x` for a text argument
Falsy(x) == x = NoneVal \/ x = ""

\* `not data`
NoItems(data) ==
    \/ data.shape = "list" /\ data.items = <<>>
    \/ data.shape = "dict" /\ DOMAIN data.items[1].d = {}

(***************************************************************************)
(* Validation: the checks a handler makes before get_connection, in the    *)
(* order of the code.  "ok" when none of them returns.                     *)
(***************************************************************************)
validate_execute_query(a) ==
    IF a.query = <<>> THEN "empty_query" ELSE "ok"

validate_describe_table(a) ==
    IF Falsy(a.table_name) THEN "empty_table_name" ELSE "ok"

validate_create_table(a) ==
    IF Falsy(a.table_name) THEN "empty_table_name"
    ELSE IF a.columns.items = <<>> \/ ~a.columns.is_list THEN "empty_columns"
    ELSE IF \E i \in 1..Len(a.columns.items) :
                a.columns.items[i]["name"] = "" \/ a.columns.items[i]["type"] = ""
         THEN "bad_column"
    ELSE "ok"

validate_insert_data(a) ==
    IF Falsy(a.table_name) THEN "empty_table_name"
    ELSE IF NoItems(a.data) THEN "empty_data"
    ELSE IF \E i \in 1..Len(a.data.items) : ~a.data.items[i].is_dict
         THEN "bad_data_format"
    ELSE "ok"

\* the mutant of validate_update_data: the condition is not checked
validate_update_data_any_condition(a) ==
    IF Falsy(a.table_name) THEN "empty_table_name"
    ELSE IF NoItems(a.data) \/ a.data.shape # "dict" THEN "bad_update_data"
    ELSE "ok"

validate_update_data(a) ==
    IF Falsy(a.table_name) THEN "empty_table_name"
    ELSE IF NoItems(a.data) \/ a.data.shape # "dict" THEN "bad_update_data"
    ELSE IF Falsy(a.condition) THEN "empty_condition"
    ELSE "ok"

Validate(a) ==
    CASE a.handler = "execute_query" -> validate_execute_query(a)
      [] a.handler \in {"list_tables", "list_schemas"} -> "ok"
      [] a.handler = "describe_table" -> validate_describe_table(a)
      [] a.handler = "create_table" -> validate_create_table(a)
      [] a.handler = "insert_data" -> validate_insert_data(a)
      [] a.handler = "update_data" -> validate_update_data(a)

\* the one validation return that sits inside the try block (create_table, line 352)
InsideTry(a, verdict) == a.handler = "create_table" /\ verdict = "bad_column"

(***************************************************************************)
(* insert_data and update_data: the values bound to the statement.         *)
(***************************************************************************)
\* the value of item.get(col) for a missing key
py_None == 0 - 1

\* item.get(col)
dict_get(item, col) == IF col \in DOMAIN item.d THEN item.d[col] ELSE py_None

\* if isinstance(data, dict): data = [data]
as_list(data) == IF data.shape = "dict" THEN <<data.items[1]>> ELSE data.items

\* the mutant of insert_values: each row is ordered by its own keys
insert_values_own_keys(data) ==
    LET rows == as_list(data)
    IN  [i \in 1..Len(rows) |->
            [j \in 1..Len(rows[i].keys) |-> dict_get(rows[i], rows[i].keys[j])]]

\* columns = list(data[0].keys()); values = [[item.get(col) for col in columns] ...]
insert_values(data) ==
    LET rows == as_list(data)
        columns == rows[1].keys
    IN  [i \in 1..Len(rows) |->
            [j \in 1..Len(columns) |-> dict_get(rows[i], columns[j])]]

\* for key, value in data.items(): set_values.append(value)
set_values(data) ==
    LET item == data.items[1]
    IN  [j \in 1..Len(item.keys) |-> item.d[item.keys[j]]]

\* the mutant of update_data_params: the caller's list is extended with the SET values
update_data_params_extends_caller(data, params) ==
    IF ~params.is_none /\ params.items # <<>>
    THEN [all_params |-> params.items \o set_values(data),
          params |-> ParamList(params.items \o set_values(data))]
    ELSE [all_params |-> set_values(data), params |-> params]

\* all_params = set_values; if params: all_params.extend(params)
\* gives the list passed to execute and the caller's list after it
update_data_params(data, params) ==
    IF ~params.is_none /\ params.items # <<>>
    THEN [all_params |-> set_values(data) \o params.items, params |-> params]
    ELSE [all_params |-> set_values(data), params |-> params]

\* the values a handler binds to the statement of its driver call op
\* (those of execute_query, the caller's own, are not modelled)
BoundValues(a, op) ==
    IF a.handler = "insert_data" /\ op = "executemany" THEN insert_values(a.data)
    ELSE IF a.handler = "update_data" /\ op = "execute"
         THEN update_data_params(a.data, a.params).all_params
    ELSE <<>>

(***************************************************************************)
(* execute_query: is the statement one whose rows are fetched?             *)
(***************************************************************************)
\* the mutant of IsReadQuery: the statement text is not stripped
IsReadQuery_unstripped(query) ==
    LET query_upper == str_upper(query)
    IN  \/ str_startswith(query_upper, kw_SELECT)
        \/ str_startswith(query_upper, kw_SHOW)
        \/ str_startswith(query_upper, kw_DESCRIBE)
        \/ str_startswith(query_upper, kw_EXPLAIN)

IsReadQuery(query) ==
    LET query_upper == str_upper(str_strip(query))
    IN  \/ str_startswith(query_upper, kw_SELECT)
        \/ str_startswith(query_upper, kw_SHOW)
        \/ str_startswith(query_upper, kw_DESCRIBE)
        \/ str_startswith(query_upper, kw_EXPLAIN)

(***************************************************************************)
(* The driver calls a handler makes on its cursor and connection after     *)
(* conn.cursor(), in order.                                                *)
(***************************************************************************)
\* the mutant of Program: the handlers that write commit before they execute
Program_commits_first(a) ==
    CASE a.handler = "execute_query" ->
            IF IsReadQuery(a.query) THEN <<"execute", "fetchall">>
                                    ELSE <<"commit", "execute">>
      [] a.handler \in {"list_tables", "list_schemas"} -> <<"execute", "fetchall">>
      [] a.handler = "describe_table" -> <<"execute", "fetchall", "execute", "fetchall">>
      [] a.handler = "create_table" -> <<"commit", "execute">>
      [] a.handler = "insert_data" -> <<"commit", "executemany">>
      [] a.handler = "update_data" -> <<"commit", "execute">>

Program(a) ==
    CASE a.handler = "execute_query" ->
            IF IsReadQuery(a.query) THEN <<"execute", "fetchall">>
                                    ELSE <<"execute", "commit">>
      [] a.handler \in {"list_tables", "list_schemas"} -> <<"execute", "fetchall">>
      [] a.handler = "describe_table" -> <<"execute", "fetchall", "execute", "fetchall">>
      [] a.handler = "create_table" -> <<"execute", "commit">>
      [] a.handler = "insert_data" -> <<"executemany", "commit">>
      [] a.handler = "update_data" -> <<"execute", "commit">>

(***************************************************************************)
(* What a handler call ends with: a returned dict (status "success" or     *)
(* "error") or an exception that leaves the handler (status "raised").     *)
(***************************************************************************)
NoResult ==
    [status |-> "none", error |-> "", e |-> NoneExc, diag |-> "none",
     rows |-> <<>>, row_count |-> 0 - 1, primary_keys |-> <<>>,
     affected_rows |-> 0 - 1, query |-> <<>>]

\* the query echoed under the "query" key (execute_query only)
Echo(a) == IF a.handler = "execute_query" THEN a.query ELSE <<>>

\* return {"error": <validation message>}
ValidationResult(verdict) == [NoResult EXCEPT !.status = "error", !.error = verdict]

\* the mutant of ExceptResult: an exception that is not a driver error is
\* reported without its text
ExceptResult_drops_text(a, e) ==
    IF e.cls = "Error"
    THEN [NoResult EXCEPT !.status = "error", !.error = "driver", !.e = e,
                          !.diag = handler_diagnosis(a.handler, str(e)),
                          !.query = Echo(a)]
    ELSE [NoResult EXCEPT !.status = "error", !.error = "unknown",
                          !.query = Echo(a)]

\* except Error as e: ... / except Exception as e: ...
ExceptResult(a, e) ==
    IF e.cls = "Error"
    THEN [NoResult EXCEPT !.status = "error", !.error = "driver", !.e = e,
                          !.diag = handler_diagnosis(a.handler, str(e)),
                          !.query = Echo(a)]
    ELSE [NoResult EXCEPT !.status = "error", !.error = "unknown", !.e = e,
                          !.query = Echo(a)]

\* the return statement that ends the try block
SuccessResult(a, rowcount, got) ==
    CASE a.handler = "execute_query" /\ IsReadQuery(a.query) ->
            [NoResult EXCEPT !.status = "success", !.rows = got[1],
                             !.row_count = Len(got[1])]
      [] a.handler = "execute_query" /\ ~IsReadQuery(a.query) ->
            [NoResult EXCEPT !.status = "success", !.affected_rows = rowcount]
      [] a.handler \in {"list_tables", "list_schemas"} ->
            [NoResult EXCEPT !.status = "success", !.rows = got[1],
                             !.row_count = Len(got[1])]
      [] a.handler = "describe_table" ->
            [NoResult EXCEPT !.status = "success", !.rows = got[1],
                             !.primary_keys = got[2]]
      [] a.handler = "create_table" ->
            [NoResult EXCEPT !.status = "success"]
      [] a.handler = "insert_data" ->
            [NoResult EXCEPT !.status = "success",
                             !.affected_rows = Len(as_list(a.data))]
      [] a.handler = "update_data" ->
            [NoResult EXCEPT !.status = "success", !.affected_rows = rowcount]

\* raised by `cursor.close()` in the finally block when `cursor` was never bound
UnboundLocalError ==
    [cls |-> "UnboundLocalError", text |-> <<>>, attempts |-> 0 - 1, hint |-> "none"]

(***************************************************************************)
(* Connections and cursors.                                                *)
(***************************************************************************)
NoConn == [bound |-> FALSE, closed |-> FALSE, pending |-> 0, committed |-> 0]

NoCursor == [state |-> "unbound", rowcount |-> 0 - 1]

\* a driver call as logged: the call, how it ended, and the keyword arguments of connect
Entry(op, out, params) ==
    [op |-> op, out |-> out, params |-> params, values |-> <<>>]

\* a driver call of a handler on its cursor or connection, as logged
Sent(a, op, out) == [Entry(op, out, EmptyDict) EXCEPT !.values = BoundValues(a, op)]

NoRequest == Request("none", "", <<>>, NoColumns, NoData, "")

(***************************************************************************)
(* Init: the module has been loaded; run as a script it has set            *)
(* GLOBAL_DB_CONFIG from the command line, imported it has left it None.   *)
(***************************************************************************)
Init ==
    /\ \E r \in {DefaultRetryCount}, isMain \in BOOLEAN, ns \in CommandLines :
          /\ GLOBAL_DB_CONFIG = IF isMain THEN GlobalRef ELSE NoneRef
          /\ heap = [x \in Refs |->
                        IF x = DefaultRef THEN DefaultConfig(r)
                        ELSE IF x = GlobalRef /\ isMain
                             THEN get_config_from_args(DefaultConfig(r), ns)
                        ELSE EmptyDict]
    /\ startup = heap
    /\ pc = [c \in Calls |-> "idle"]
    /\ args = [c \in Calls |-> NoRequest]
    /\ db_config = [c \in Calls |-> NoneRef]
    /\ passed = [c \in Calls |-> EmptyDict]
    /\ cfg = [c \in Calls |-> NoneRef]
    /\ max_retries = [c \in Calls |-> 0]
    /\ retry_count = [c \in Calls |-> 0]
    /\ last_error = [c \in Calls |-> NoneExc]
    /\ conn = [c \in Calls |-> NoConn]
    /\ cursor = [c \in Calls |-> NoCursor]
    /\ ip = [c \in Calls |-> 0]
    /\ fetched = [c \in Calls |-> <<>>]
    /\ result = [c \in Calls |-> NoResult]
    /\ log = [c \in Calls |-> <<>>]
    /\ raised = [c \in Calls |-> NoneExc]

(***************************************************************************)
(* The tool framework: a request arrives (Submit) and its coroutine is     *)
(* run.  No handler contains an await, so a handler that has started runs  *)
(* to its end before another one starts.                                   *)
(***************************************************************************)
Submit(c) ==
    /\ pc[c] = "idle"
    /\ pc' = [pc EXCEPT ![c] = "pending"]
    /\ UNCHANGED <<heap, GLOBAL_DB_CONFIG, startup, args, db_config, passed, cfg,
                   max_retries, retry_count, last_error, conn, cursor, ip, fetched,
                   result, log, raised>>

\* the handler is entered: its validation up to the call of get_connection
Call(c) ==
    /\ pc[c] = "pending"
    /\ \A d \in Calls \ {c} : pc[d] \in {"idle", "pending"}
    /\ \E a \in Requests, none \in BOOLEAN, dc \in CallConfigs :
          LET verdict == Validate(a)
          IN  /\ args' = [args EXCEPT ![c] = a]
              /\ db_config' = [db_config EXCEPT ![c] = IF none THEN NoneRef ELSE ArgRef(c)]
              /\ passed' = [passed EXCEPT ![c] = IF none THEN EmptyDict ELSE dc]
              /\ heap' = [heap EXCEPT ![ArgRef(c)] = IF none THEN EmptyDict ELSE dc]
              /\ result' = [result EXCEPT ![c] =
                                IF verdict = "ok" THEN NoResult
                                ELSE ValidationResult(verdict)]
              /\ pc' = [pc EXCEPT ![c] =
                            IF verdict = "ok" THEN "get_connection"
                            ELSE IF InsideTry(a, verdict) THEN "finally"
                            ELSE "done"]
    /\ UNCHANGED <<GLOBAL_DB_CONFIG, startup, cfg, max_retries, retry_count,
                   last_error, conn, cursor, ip, fetched, log, raised>>

(***************************************************************************)
(* get_connection                                                          *)
(***************************************************************************)
\* lines 74-90: the merge of the configurations and the pop of connect_retry_count
Resolve(c) ==
    /\ pc[c] = "get_connection"
    /\ LET base == IF GLOBAL_DB_CONFIG # NoneRef THEN GLOBAL_DB_CONFIG ELSE DefaultRef
           cp == dict_copy(heap, base, LocalRef(c))
           merged == IF db_config[c] = NoneRef THEN cp.heap
                     ELSE [cp.heap EXCEPT ![cp.ref] =
                                dict_update(@, cp.heap[db_config[c]])]
       IN  /\ cfg' = [cfg EXCEPT ![c] = cp.ref]
           /\ max_retries' = [max_retries EXCEPT ![c] =
                  dict_pop_value(merged[cp.ref], "connect_retry_count", DefaultRetryCount)]
           /\ heap' = [merged EXCEPT ![cp.ref] = dict_pop_rest(@, "connect_retry_count")]
    /\ retry_count' = [retry_count EXCEPT ![c] = 0]
    /\ last_error' = [last_error EXCEPT ![c] = NoneExc]
    /\ pc' = [pc EXCEPT ![c] = "connect"]
    /\ UNCHANGED <<GLOBAL_DB_CONFIG, startup, args, db_config, passed, conn, cursor,
                   ip, fetched, result, log, raised>>

\* get_connection is left: its locals and the dicts only they name are gone
LeaveGetConnection(c, h) ==
    /\ cfg' = [cfg EXCEPT ![c] = NoneRef]
    /\ max_retries' = [max_retries EXCEPT ![c] = 0]
    /\ retry_count' = [retry_count EXCEPT ![c] = 0]
    /\ last_error' = [last_error EXCEPT ![c] = NoneExc]
    /\ heap' = [h EXCEPT ![LocalRef(c)] = EmptyDict, ![ParamsRef(c)] = EmptyDict]

\* the mutant of Caught: every exception is handled as a driver error
Caught_as_driver_error(c, e) ==
    /\ result' = [result EXCEPT ![c] = ExceptResult(args[c], [e EXCEPT !.cls = "Error"])]
    /\ pc' = [pc EXCEPT ![c] = "finally"]

\* an exception e reaches the handler's except clauses
Caught(c, e) ==
    /\ result' = [result EXCEPT ![c] = ExceptResult(args[c], e)]
    /\ pc' = [pc EXCEPT ![c] = "finally"]

\* lines 102-104: the message printed on standard output when a retry follows
RetryMessage(count, max) ==
    IF count < max THEN <<Entry("print", "ok", EmptyDict)>> ELSE <<>>

\* the mutant of ConnectAttempt: a failed attempt counts twice
ConnectAttempt_counts_twice(c) ==
    /\ pc[c] = "connect"
    /\ retry_count[c] < max_retries[c]
    /\ LET cp == dict_copy(heap, cfg[c], ParamsRef(c))
           conn_params == cp.heap[cp.ref]
       IN  \/ /\ conn' = [conn EXCEPT ![c] = [NoConn EXCEPT !.bound = TRUE]]
              /\ log' = [log EXCEPT ![c] = Append(@, Entry("connect", "ok", conn_params))]
              /\ raised' = [raised EXCEPT ![c] = NoneExc]
              /\ pc' = [pc EXCEPT ![c] = "cursor"]
              /\ LeaveGetConnection(c, cp.heap)
              /\ UNCHANGED result
           \/ \E text \in ConnectErrorTexts :
                 /\ last_error' = [last_error EXCEPT ![c] = DriverError(text)]
                 /\ retry_count' = [retry_count EXCEPT ![c] = @ + 2]
                 /\ log' = [log EXCEPT ![c] =
                                Append(@, Entry("connect", "Error", conn_params))
                                  \o RetryMessage(retry_count[c] + 1, max_retries[c])]
                 /\ raised' = [raised EXCEPT ![c] = DriverError(text)]
                 /\ heap' = cp.heap
                 /\ UNCHANGED <<cfg, max_retries, conn, pc, result>>
           \/ /\ log' = [log EXCEPT ![c] =
                             Append(@, Entry("connect", "Exception", conn_params))]
              /\ raised' = [raised EXCEPT ![c] = OtherException(txt_other)]
              /\ Caught(c, OtherException(txt_other))
              /\ LeaveGetConnection(c, cp.heap)
              /\ UNCHANGED conn
    /\ UNCHANGED <<GLOBAL_DB_CONFIG, startup, args, db_config, passed, cursor, ip,
                   fetched>>

\* lines 92-104: one iteration of the retry loop
ConnectAttempt(c) ==
    /\ pc[c] = "connect"
    /\ retry_count[c] < max_retries[c]
    /\ LET cp == dict_copy(heap, cfg[c], ParamsRef(c))
           conn_params == cp.heap[cp.ref]
       IN  \/ /\ conn' = [conn EXCEPT ![c] = [NoConn EXCEPT !.bound = TRUE]]
              /\ log' = [log EXCEPT ![c] = Append(@, Entry("connect", "ok", conn_params))]
              /\ raised' = [raised EXCEPT ![c] = NoneExc]
              /\ pc' = [pc EXCEPT ![c] = "cursor"]
              /\ LeaveGetConnection(c, cp.heap)
              /\ UNCHANGED result
           \/ \E text \in ConnectErrorTexts :
                 /\ last_error' = [last_error EXCEPT ![c] = DriverError(text)]
                 /\ retry_count' = [retry_count EXCEPT ![c] = @ + 1]
                 /\ log' = [log EXCEPT ![c] =
                                Append(@, Entry("connect", "Error", conn_params))
                                  \o RetryMessage(retry_count[c] + 1, max_retries[c])]
                 /\ raised' = [raised EXCEPT ![c] = DriverError(text)]
                 /\ heap' = cp.heap
                 /\ UNCHANGED <<cfg, max_retries, conn, pc, result>>
           \/ /\ log' = [log EXCEPT ![c] =
                             Append(@, Entry("connect", "Exception", conn_params))]
              /\ raised' = [raised EXCEPT ![c] = OtherException(txt_other)]
              /\ Caught(c, OtherException(txt_other))
              /\ LeaveGetConnection(c, cp.heap)
              /\ UNCHANGED conn
    /\ UNCHANGED <<GLOBAL_DB_CONFIG, startup, args, db_config, passed, cursor, ip,
                   fetched>>

\* lines 106-115: the loop is over without a connection
ConnectExhausted(c) ==
    /\ pc[c] = "connect"
    /\ ~(retry_count[c] < max_retries[c])
    /\ Caught(c, ConnectionFailure(retry_count[c], last_error[c]))
    /\ LeaveGetConnection(c, heap)
    /\ UNCHANGED <<GLOBAL_DB_CONFIG, startup, args, db_config, passed, conn, cursor,
                   ip, fetched, log, raised>>

(***************************************************************************)
(* The try block after get_connection.                                     *)
(***************************************************************************)
Logged(c, op, out) == log' = [log EXCEPT ![c] = Append(@, Sent(args[c], op, out))]

\* the driver call raises: psycopg2.Error with some text, or another exception
Raises(c, op) ==
    \/ \E text \in StatementErrorTexts :
          /\ Logged(c, op, "Error")
          /\ raised' = [raised EXCEPT ![c] = DriverError(text)]
          /\ Caught(c, DriverError(text))
    \/ /\ Logged(c, op, "Exception")
       /\ raised' = [raised EXCEPT ![c] = OtherException(txt_other)]
       /\ Caught(c, OtherException(txt_other))

\* the driver call returned: go on to the next one, or to the return statement
Returns(c, op, rowcount, got) ==
    /\ Logged(c, op, "ok")
    /\ raised' = [raised EXCEPT ![c] = NoneExc]
    /\ ip' = [ip EXCEPT ![c] = @ + 1]
    /\ IF ip[c] < Len(Program(args[c]))
       THEN UNCHANGED <<pc, result>>
       ELSE /\ pc' = [pc EXCEPT ![c] = "finally"]
            /\ result' = [result EXCEPT ![c] = SuccessResult(args[c], rowcount, got)]

NextOp(c) == Program(args[c])[ip[c]]

\* cursor = conn.cursor(...)
CreateCursor(c) ==
    /\ pc[c] = "cursor"
    /\ \/ /\ cursor' = [cursor EXCEPT ![c] = [NoCursor EXCEPT !.state = "open"]]
          /\ Logged(c, "cursor", "ok")
          /\ raised' = [raised EXCEPT ![c] = NoneExc]
          /\ pc' = [pc EXCEPT ![c] = "body"]
          /\ ip' = [ip EXCEPT ![c] = 1]
          /\ UNCHANGED result
       \/ /\ Raises(c, "cursor")
          /\ UNCHANGED <<cursor, ip>>
    /\ UNCHANGED <<config_vars, args, db_config, passed, cfg, max_retries,
                   retry_count, last_error, conn, fetched>>

\* does the handler's statement change rows (it is followed by a commit)?
Writes(a) == \E i \in 1..Len(Program(a)) : Program(a)[i] = "commit"

\* the caller's arguments once update_data has built all_params
AfterBinding(a) ==
    IF a.handler = "update_data"
    THEN [a EXCEPT !.params = update_data_params(a.data, a.params).params]
    ELSE a

\* cursor.execute(...)
Execute(c) ==
    /\ pc[c] = "body"
    /\ NextOp(c) = "execute"
    /\ \/ \E n \in 0..MaxRows :
             /\ cursor' = [cursor EXCEPT ![c].rowcount = n]
             /\ conn' = [conn EXCEPT ![c].pending =
                            IF Writes(args[c]) THEN @ + n ELSE @]
             /\ Returns(c, "execute", n, fetched[c])
       \/ \E lost \in BOOLEAN :
             /\ Raises(c, "execute")
             /\ conn' = [conn EXCEPT ![c].closed = lost,
                                     ![c].pending = IF lost THEN 0 ELSE @]
             /\ UNCHANGED <<cursor, ip>>
    /\ args' = [args EXCEPT ![c] = AfterBinding(@)]
    /\ UNCHANGED <<config_vars, db_config, passed, cfg, max_retries,
                   retry_count, last_error, fetched>>

\* cursor.executemany(sql, values): the rows are sent one by one
ExecuteMany(c) ==
    /\ pc[c] = "body"
    /\ NextOp(c) = "executemany"
    /\ LET n == Len(BoundValues(args[c], "executemany"))
       IN  \/ /\ cursor' = [cursor EXCEPT ![c].rowcount = n]
              /\ conn' = [conn EXCEPT ![c].pending = @ + n]
              /\ Returns(c, "executemany", n, fetched[c])
           \/ \E done \in 0..(n - 1) :
                 /\ Raises(c, "executemany")
                 /\ conn' = [conn EXCEPT ![c].pending = @ + done]
                 /\ UNCHANGED <<cursor, ip>>
    /\ UNCHANGED <<config_vars, args, db_config, passed, cfg, max_retries,
                   retry_count, last_error, fetched>>

\* cursor.fetchall(): the rows of the statement executed last
FetchAll(c) ==
    /\ pc[c] = "body"
    /\ NextOp(c) = "fetchall"
    /\ \/ LET rows == [i \in 1..cursor[c].rowcount |-> i]
          IN  /\ fetched' = [fetched EXCEPT ![c] = Append(@, rows)]
              /\ Returns(c, "fetchall", cursor[c].rowcount, Append(fetched[c], rows))
       \/ /\ Raises(c, "fetchall")
          /\ UNCHANGED <<fetched, ip>>
    /\ UNCHANGED <<config_vars, args, db_config, passed, cfg, max_retries,
                   retry_count, last_error, conn, cursor>>

\* conn.commit()
Commit(c) ==
    /\ pc[c] = "body"
    /\ NextOp(c) = "commit"
    /\ \/ /\ conn' = [conn EXCEPT ![c].committed = @ + conn[c].pending,
                                  ![c].pending = 0]
          /\ Returns(c, "commit", cursor[c].rowcount, fetched[c])
       \/ /\ Raises(c, "commit")
          /\ UNCHANGED <<conn, ip>>
    /\ UNCHANGED <<config_vars, args, db_config, passed, cfg, max_retries,
                   retry_count, last_error, cursor, fetched>>

(***************************************************************************)
(* finally: if 'conn' in locals() and not conn.closed:                     *)
(*              cursor.close(); conn.close()                               *)
(* A connection closed without a commit loses its pending rows.            *)
(***************************************************************************)
Finally(c) ==
    /\ pc[c] = "finally"
    /\ IF conn[c].bound /\ ~conn[c].closed
       THEN IF cursor[c].state = "unbound"
            THEN /\ result' = [result EXCEPT ![c] =
                        [NoResult EXCEPT !.status = "raised", !.e = UnboundLocalError]]
                 /\ UNCHANGED <<conn, cursor, log>>
            ELSE /\ cursor' = [cursor EXCEPT ![c].state = "closed"]
                 /\ conn' = [conn EXCEPT ![c].closed = TRUE, ![c].pending = 0]
                 /\ log' = [log EXCEPT ![c] =
                        @ \o <<Entry("cursor.close", "ok", EmptyDict),
                               Entry("close", "ok", EmptyDict)>>]
                 /\ UNCHANGED result
       ELSE UNCHANGED <<conn, cursor, log, result>>
    /\ pc' = [pc EXCEPT ![c] = "done"]
    /\ UNCHANGED <<config_vars, args, db_config, passed, cfg, max_retries,
                   retry_count, last_error, ip, fetched, raised>>

\* the caller has the outcome; the call's frame and its argument objects are gone
Return(c) ==
    /\ pc[c] = "done"
    /\ pc' = [pc EXCEPT ![c] = "idle"]
    /\ args' = [args EXCEPT ![c] = NoRequest]
    /\ db_config' = [db_config EXCEPT ![c] = NoneRef]
    /\ passed' = [passed EXCEPT ![c] = EmptyDict]
    /\ heap' = [heap EXCEPT ![ArgRef(c)] = EmptyDict]
    /\ conn' = [conn EXCEPT ![c] = NoConn]
    /\ cursor' = [cursor EXCEPT ![c] = NoCursor]
    /\ ip' = [ip EXCEPT ![c] = 0]
    /\ fetched' = [fetched EXCEPT ![c] = <<>>]
    /\ result' = [result EXCEPT ![c] = NoResult]
    /\ log' = [log EXCEPT ![c] = <<>>]
    /\ raised' = [raised EXCEPT ![c] = NoneExc]
    /\ UNCHANGED <<GLOBAL_DB_CONFIG, startup, cfg, max_retries, retry_count, last_error>>

Next ==
    \E c \in Calls :
        \/ Submit(c)
        \/ Call(c)
        \/ Resolve(c)
        \/ ConnectAttempt(c)
        \/ ConnectExhausted(c)
        \/ CreateCursor(c)
        \/ Execute(c)
        \/ ExecuteMany(c)
        \/ FetchAll(c)
        \/ Commit(c)
        \/ Finally(c)
        \/ Return(c)

Spec == Init /\ [][Next]_vars

(***************************************************************************)
(* Properties                                                              *)
(***************************************************************************)
\* the handler call of slot c has ended
Ended(c) == pc[c] = "done"

\* the indices of the log entries of call c for the driver call op
Ops(c, op) == {i \in 1..Len(log[c]) : log[c][i].op = op}

\* C1: in every handler and on every exit path, a connection that
\* get_connection returned is closed by the time the handler call ends.
C1_ConnectionClosedOnEveryExit ==
    \A c \in Calls : Ended(c) /\ conn[c].bound => conn[c].closed

\* C2: every handler call ends by returning a structured result, a success
\* object or an object with an 'error' key; no exception leaves the handler.
C2_AlwaysStructuredResult ==
    \A c \in Calls : Ended(c) => result[c].status \in {"success", "error"}

\* the value the claims give key k of the profile of call c: the caller's if the
\* caller supplied the key, else the process-wide one if there is a process-wide
\* configuration, else the default
Expected(c, k) ==
    IF db_config[c] # NoneRef /\ k \in DOMAIN passed[c] THEN passed[c][k]
    ELSE IF GLOBAL_DB_CONFIG # NoneRef THEN startup[GlobalRef][k]
    ELSE startup[DefaultRef][k]

\* get_connection was called by call c and gave no connection
AcquisitionFailed(c) ==
    /\ pc[c] \in {"finally", "done"}
    /\ Validate(args[c]) = "ok"
    /\ ~conn[c].bound

\* what C3 promises of a failed acquisition under a retry count n
ReportsAllAttempts(c, n) ==
    /\ Cardinality(Ops(c, "connect")) = n
    /\ result[c].status = "error"
    /\ result[c].e.attempts = n
    /\ result[c].e.text = str(raised[c])

\* C3 as stated: for N >= 1, if connect fails on every attempt, get_connection
\* makes exactly N attempts and raises the connection error with count N and
\* the last attempt's error as cause.
C3_FailsOnEveryAttempt ==
    \A c \in Calls :
        AcquisitionFailed(c) /\ Expected(c, "connect_retry_count") >= 1
            => ReportsAllAttempts(c, Expected(c, "connect_retry_count"))

\* C3 amended: the same, when every attempt fails with a driver error
\* (psycopg2.Error).
C3_DriverErrorOnEveryAttempt ==
    \A c \in Calls :
        /\ AcquisitionFailed(c)
        /\ Expected(c, "connect_retry_count") >= 1
        /\ \A i \in Ops(c, "connect") : log[c][i].out = "Error"
        => ReportsAllAttempts(c, Expected(c, "connect_retry_count"))

C3_Witness ==
    \E c \in Calls :
        /\ AcquisitionFailed(c)
        /\ Expected(c, "connect_retry_count") = 2
        /\ Cardinality(Ops(c, "connect")) = 2
        /\ \A i \in Ops(c, "connect") : log[c][i].out = "Error"
        /\ result[c].e.attempts = 2

\* C4: the profile get_connection uses is resolved key by key: per-call value,
\* else process-wide value, else default; the retry count it loops on and the
\* parameters it passes to connect are those values.
C4_ProfileResolvedKeyByKey ==
    \A c \in Calls :
        /\ pc[c] = "connect" =>
              /\ max_retries[c] = Expected(c, "connect_retry_count")
              /\ \A k \in {"host", "user"} :
                    k \in DOMAIN heap[cfg[c]] /\ heap[cfg[c]][k] = Expected(c, k)
        /\ \A i \in Ops(c, "connect") : \A k \in {"host", "user"} :
              k \in DOMAIN log[c][i].params /\ log[c][i].params[k] = Expected(c, k)

C4_Witness ==
    \E c \in Calls :
        /\ pc[c] = "connect"
        /\ GLOBAL_DB_CONFIG # NoneRef
        /\ startup[GlobalRef]["connect_retry_count"] = 1
        /\ db_config[c] # NoneRef
        /\ DOMAIN passed[c] = {"connect_retry_count"}
        /\ passed[c]["connect_retry_count"] = 2
        /\ max_retries[c] = 2
        /\ heap[cfg[c]]["host"] = "localhost"

\* t starts with kw, letter case ignored
StartsWithIgnoringCase(t, kw) ==
    /\ Len(t) >= Len(kw)
    /\ \A i \in 1..Len(kw) : LowerChar(t[i]) = LowerChar(kw[i])

\* the trimmed statement text starts with SELECT, SHOW, DESCRIBE or EXPLAIN
ReadStatement(q) ==
    \E kw \in {kw_SELECT, kw_SHOW, kw_DESCRIBE, kw_EXPLAIN} :
        StartsWithIgnoringCase(str_strip(q), kw)

\* C5: execute_query, when execution succeeds: a read statement gives the rows
\* and their number and no commit; any other statement gives the affected-row
\* count and exactly one commit, after the execute and before the close.
C5_ReadOrWriteResult ==
    \A c \in Calls :
        args[c].handler = "execute_query" /\ pc[c] \in {"finally", "done"} =>
            /\ (log[c] # <<>> /\ \A i \in 1..Len(log[c]) : log[c][i].out = "ok")
                  => result[c].status = "success"
            /\ result[c].status = "success" =>
                  /\ Ended(c) => Ops(c, "close") # {}
                  /\ IF ReadStatement(args[c].query)
                     THEN /\ Len(fetched[c]) = 1
                          /\ result[c].rows = fetched[c][1]
                          /\ result[c].row_count = Len(result[c].rows)
                          /\ result[c].affected_rows = 0 - 1
                          /\ Ops(c, "commit") = {}
                     ELSE /\ result[c].affected_rows = cursor[c].rowcount
                          /\ result[c].row_count = 0 - 1
                          /\ Cardinality(Ops(c, "commit")) = 1
                          /\ \A i \in Ops(c, "commit") :
                                /\ log[c][i].out = "ok"
                                /\ \E j \in Ops(c, "execute") :
                                      j < i /\ log[c][j].out = "ok"
                                /\ \A j \in Ops(c, "close") : i < j

C5_Witness ==
    \E c \in Calls :
        /\ Ended(c)
        /\ args[c].handler = "execute_query"
        /\ args[c].query = QueryPad \o q_insert
        /\ result[c].status = "success"
        /\ result[c].affected_rows = 1
        /\ conn[c].committed = 1
        /\ conn[c].closed

\* the requests the claims call invalid
InvalidRequest(a) ==
    \/ a.handler = "update_data" /\ a.condition \in {NoneVal, ""}
    \/ a.handler \in {"describe_table", "create_table", "insert_data", "update_data"}
          /\ a.table_name = ""
    \/ a.handler = "create_table"
          /\ \/ a.columns.items = <<>>
             \/ \E i \in 1..Len(a.columns.items) :
                   a.columns.items[i]["name"] = "" \/ a.columns.items[i]["type"] = ""
    \/ a.handler \in {"insert_data", "update_data"} /\ NoItems(a.data)
    \/ a.handler = "execute_query" /\ a.query = <<>>

\* C6: a validation failure is decided before any database interaction: the
\* handler returns an error object without calling get_connection, without a
\* connect attempt and without executing a statement.
C6_ValidationBeforeDatabase ==
    \A c \in Calls :
        InvalidRequest(args[c]) =>
            /\ pc[c] \in {"finally", "done"}
            /\ cfg[c] = NoneRef
            /\ log[c] = <<>>
            /\ ~conn[c].bound
            /\ result[c].status = "error"
            /\ result[c].error \notin {"driver", "unknown"}

C6_Witness ==
    \E c \in Calls :
        /\ Ended(c)
        /\ args[c].handler = "update_data"
        /\ args[c].table_name = "t"
        /\ ~NoItems(args[c].data)
        /\ args[c].data.shape = "dict"
        /\ args[c].condition = ""
        /\ result[c].error = "empty_condition"
        /\ log[c] = <<>>

\* the log entries of call c that execute a statement
Executions(c) == Ops(c, "execute") \cup Ops(c, "executemany")

\* C7: commit is called only after the statement execution returned without
\* error; if execution raises a driver error, commit is never called in that
\* call and the connection is closed uncommitted: a failed insert_data batch
\* commits none of its rows.
C7_CommitOnlyAfterExecute ==
    \A c \in Calls :
        /\ \A i \in Ops(c, "commit") :
              /\ \E j \in Executions(c) : j < i
              /\ \A j \in Executions(c) : j < i /\ log[c][j].out = "ok"
        /\ (\E j \in Executions(c) : log[c][j].out = "Error") =>
              /\ Ops(c, "commit") = {}
              /\ conn[c].committed = 0
              /\ Ended(c) => conn[c].closed /\ conn[c].pending = 0

C7_Witness ==
    \E c \in Calls :
        /\ Ended(c)
        /\ args[c].handler = "insert_data"
        /\ Len(args[c].data.items) = 2
        /\ \E j \in Ops(c, "executemany") : log[c][j].out = "Error"
        /\ Ops(c, "close") # {}
        /\ conn[c].closed
        /\ conn[c].committed = 0

\* C8: whatever calls are made with whatever db_config, GLOBAL_DB_CONFIG and
\* DEFAULT_DB_CONFIG keep the items they had at startup, connect_retry_count
\* included, and the caller's db_config mapping is not changed; the retry count
\* of a call is the one its own db_config and the startup values give.
C8_ConfigurationsUnchanged ==
    /\ heap[DefaultRef] = startup[DefaultRef]
    /\ heap[GlobalRef] = startup[GlobalRef]
    /\ "connect_retry_count" \in DOMAIN heap[DefaultRef]
    /\ GLOBAL_DB_CONFIG # NoneRef => "connect_retry_count" \in DOMAIN heap[GlobalRef]
    /\ \A c \in Calls :
          /\ db_config[c] # NoneRef => heap[ArgRef(c)] = passed[c]
          /\ pc[c] = "connect" => max_retries[c] = Expected(c, "connect_retry_count")

C8_Witness ==
    \E c \in Calls :
        /\ Ended(c)
        /\ GLOBAL_DB_CONFIG # NoneRef
        /\ db_config[c] # NoneRef
        /\ DOMAIN passed[c] = {"host", "connect_retry_count"}
        /\ Ops(c, "connect") # {}
        /\ heap[ArgRef(c)] = passed[c]

Max(a, b) == IF a >= b THEN a ELSE b

\* C9: the parameters passed to connect never contain connect_retry_count, and
\* the attempts allowed are the resolved connect_retry_count.
C9_RetryCountNotForwarded ==
    \A c \in Calls :
        /\ \A i \in Ops(c, "connect") :
              "connect_retry_count" \notin DOMAIN log[c][i].params
        /\ pc[c] = "connect" =>
              /\ max_retries[c] = Expected(c, "connect_retry_count")
              /\ "connect_retry_count" \notin DOMAIN heap[cfg[c]]
        /\ Ops(c, "connect") # {} =>
              Cardinality(Ops(c, "connect")) <= Max(Expected(c, "connect_retry_count"), 0)

C9_Witness ==
    \E c \in Calls :
        /\ db_config[c] # NoneRef
        /\ "connect_retry_count" \in DOMAIN passed[c]
        /\ passed[c]["connect_retry_count"] = 2
        /\ Cardinality(Ops(c, "connect")) = 2
        /\ \A i \in Ops(c, "connect") : DOMAIN log[c][i].params = {"host", "user"}

(***************************************************************************)
(* The diagnosis of get_connection on its own: a call whose single allowed *)
(* connect attempt has just failed with a driver error of any text built   *)
(* from the fragments below; the actions are the code's.                   *)
(***************************************************************************)
f_refused == <<"C","o","n","n","e","c","t","i","o","n"," ","R","e","f","u","s","e","d">>
f_password == <<"P","a","s","s","w","o","r","d"," ">>
f_authfail == <<"a","u","t","h","e","n","t","i","c","a","t","i","o","n"," ","f","a","i","l","e","d">>
f_pwauth == <<"p","a","s","s","w","o","r","d"," ","a","u","t","h","e","n","t","i","c","a","t","i","o","n"," ","f","a","i","l","e","d">>
f_database == <<"D","A","T","A","B","A","S","E">>
f_dne == <<" ","d","o","e","s"," ","n","o","t"," ","e","x","i","s","t">>
f_nodb == <<"d","a","t","a","b","a","s","e"," ","\"","x","\""," ","d","o","e","s"," ","n","o","t"," ","e","x","i","s","t">>
f_timeout == <<"t","i","m","e","o","u","t"," ","e","x","p","i","r","e","d">>

Fragments == {f_refused, f_password, f_authfail, f_pwauth, f_database, f_dne,
              f_nodb, f_timeout}

RECURSIVE Join(_)
Join(fs) == IF fs = <<>> THEN <<>> ELSE Head(fs) \o Join(Tail(fs))

ErrorTexts == {Join(fs) : fs \in UNION {[1..n -> Fragments] : n \in 0..MaxFragments}}

InitDiag ==
    /\ GLOBAL_DB_CONFIG = NoneRef
    /\ \E text \in ErrorTexts :
          LET one == [k \in {"connect_retry_count"} |-> 1]
              params == dict_pop_rest(DefaultConfig(DefaultRetryCount),
                                      "connect_retry_count")
          IN  /\ heap = [x \in Refs |->
                            IF x = DefaultRef THEN DefaultConfig(DefaultRetryCount)
                            ELSE IF x = ArgRef(1) THEN one
                            ELSE IF x \in {LocalRef(1), ParamsRef(1)} THEN params
                            ELSE EmptyDict]
              /\ startup = [x \in Refs |->
                            IF x = DefaultRef THEN DefaultConfig(DefaultRetryCount)
                            ELSE EmptyDict]
              /\ passed = [c \in Calls |-> IF c = 1 THEN one ELSE EmptyDict]
              /\ last_error = [c \in Calls |->
                                  IF c = 1 THEN DriverError(text) ELSE NoneExc]
              /\ raised = [c \in Calls |->
                              IF c = 1 THEN DriverError(text) ELSE NoneExc]
              /\ log = [c \in Calls |->
                           IF c = 1 THEN <<Entry("connect", "Error", params)>>
                           ELSE <<>>]
    /\ pc = [c \in Calls |-> IF c = 1 THEN "connect" ELSE "idle"]
    /\ args = [c \in Calls |->
                  IF c = 1 THEN Request("list_schemas", "", <<>>, NoColumns, NoData, "")
                  ELSE NoRequest]
    /\ db_config = [c \in Calls |-> IF c = 1 THEN ArgRef(1) ELSE NoneRef]
    /\ cfg = [c \in Calls |-> IF c = 1 THEN LocalRef(1) ELSE NoneRef]
    /\ max_retries = [c \in Calls |-> IF c = 1 THEN 1 ELSE 0]
    /\ retry_count = [c \in Calls |-> IF c = 1 THEN 1 ELSE 0]
    /\ conn = [c \in Calls |-> NoConn]
    /\ cursor = [c \in Calls |-> NoCursor]
    /\ ip = [c \in Calls |-> 0]
    /\ fetched = [c \in Calls |-> <<>>]
    /\ result = [c \in Calls |-> NoResult]

NextDiag == \E c \in Calls : ConnectExhausted(c) \/ Finally(c)

SpecDiag == InitDiag /\ [][NextDiag]_vars

\* phrase occurs in text, letter case ignored
Mentions(text, phrase) ==
    \E i \in 0..(Len(text) - Len(phrase)) :
        \A j \in 1..Len(phrase) : LowerChar(text[i + j]) = LowerChar(phrase[j])

\* the connection error of call c has been raised and caught
ConnectionErrorReported(c) ==
    pc[c] \in {"finally", "done"} /\ result[c].e.attempts >= 0

\* C10 as stated: the diagnosis after the retries is chosen on the last raw
\* error, in this order: "connection refused" -> host/port/timeout; else both
\* "password" and "authentication failed" -> username; else "does not exist"
\* and "database" -> database name; otherwise nothing.
C10_PasswordAndAuthenticationFailed ==
    \A c \in Calls :
        ConnectionErrorReported(c) =>
            result[c].e.hint =
                IF Mentions(result[c].e.text, kw_connection_refused)
                THEN "host_port_timeout"
                ELSE IF /\ Mentions(result[c].e.text, kw_password)
                        /\ Mentions(result[c].e.text, kw_authentication_failed)
                     THEN "username"
                ELSE IF /\ Mentions(result[c].e.text, kw_does_not_exist)
                        /\ Mentions(result[c].e.text, kw_database)
                     THEN "database"
                ELSE "none"

\* C10 amended: the second rule is: contains the phrase
\* "password authentication failed" -> username.
C10_PasswordAuthenticationFailedPhrase ==
    \A c \in Calls :
        ConnectionErrorReported(c) =>
            /\ result[c].e.text = str(raised[c])
            /\ result[c].e.hint =
                IF Mentions(result[c].e.text, kw_connection_refused)
                THEN "host_port_timeout"
                ELSE IF Mentions(result[c].e.text, kw_password_authentication_failed)
                     THEN "username"
                ELSE IF /\ Mentions(result[c].e.text, kw_does_not_exist)
                        /\ Mentions(result[c].e.text, kw_database)
                     THEN "database"
                ELSE "none"

C10_Witness ==
    \E c \in Calls :
        /\ Ended(c)
        /\ result[c].e.attempts = 1
        /\ result[c].e.text = f_pwauth \o f_nodb
        /\ result[c].e.hint = "username"

(***************************************************************************)
(* The except clauses of the handlers on their own: a call whose first     *)
(* statement (cursor.execute or cursor.executemany) has just raised a      *)
(* psycopg2.Error of any text built from the fragments below.              *)
(***************************************************************************)
sf_column_of_relation == <<"c","o","l","u","m","n"," ","\"","x","\""," ","o","f"," ","r","e","l","a","t","i","o","n"," ","\"","t","\""," ","d","o","e","s"," ","n","o","t"," ","e","x","i","s","t">>
sf_relation == <<"r","e","l","a","t","i","o","n"," ","\"","f","o","o","\""," ","d","o","e","s"," ","n","o","t"," ","e","x","i","s","t">>
sf_Column == <<"C","o","l","u","m","n"," ">>
sf_dne == <<" ","D","o","e","s"," ","N","o","t"," ","E","x","i","s","t">>
sf_syntax == <<"S","y","n","t","a","x"," ","E","r","r","o","r"," ","a","t"," ","e","n","d"," ","o","f"," ","i","n","p","u","t">>
sf_denied == <<"p","e","r","m","i","s","s","i","o","n"," ","d","e","n","i","e","d"," ","f","o","r"," ","t","a","b","l","e"," ","t">>
sf_exists == <<"r","e","l","a","t","i","o","n"," ","\"","t","\""," ","a","l","r","e","a","d","y"," ","e","x","i","s","t","s">>
sf_violates == <<"v","i","o","l","a","t","e","s"," ">>
sf_constraint == <<"c","h","e","c","k"," ","c","o","n","s","t","r","a","i","n","t">>
sf_deadlock == <<"d","e","a","d","l","o","c","k"," ","d","e","t","e","c","t","e","d">>

StatementFragments == {sf_column_of_relation, sf_relation, sf_Column, sf_dne,
                       sf_syntax, sf_denied, sf_exists, sf_violates,
                       sf_constraint, sf_deadlock}

StatementTexts ==
    {Join(fs) : fs \in UNION {[1..n -> StatementFragments] : n \in 0..MaxFragments}}

\* a request of each handler that passes its validation
ValidRequests ==
    {Request("execute_query", "", q_insert, NoColumns, NoData, ""),
     Request("list_tables", "", <<>>, NoColumns, NoData, ""),
     Request("list_schemas", "", <<>>, NoColumns, NoData, ""),
     Request("describe_table", "t", <<>>, NoColumns, NoData, ""),
     Request("create_table", "t", <<>>,
             [is_list |-> TRUE, items |-> <<Col("id", "int")>>], NoData, ""),
     Request("insert_data", "t", <<>>, NoColumns,
             [shape |-> "dict", items |-> <<Row(1)>>], ""),
     Request("update_data", "t", <<>>, NoColumns,
             [shape |-> "dict", items |-> <<Row(1)>>], "id = 1")}

InitClassify ==
    /\ GLOBAL_DB_CONFIG = NoneRef
    /\ heap = [x \in Refs |->
                  IF x = DefaultRef THEN DefaultConfig(DefaultRetryCount) ELSE EmptyDict]
    /\ startup = heap
    /\ \E a \in ValidRequests, text \in StatementTexts :
          /\ args = [c \in Calls |-> IF c = 1 THEN a ELSE NoRequest]
          /\ raised = [c \in Calls |-> IF c = 1 THEN DriverError(text) ELSE NoneExc]
    /\ pc = [c \in Calls |-> IF c = 1 THEN "except" ELSE "idle"]
    /\ db_config = [c \in Calls |-> NoneRef]
    /\ passed = [c \in Calls |-> EmptyDict]
    /\ cfg = [c \in Calls |-> NoneRef]
    /\ max_retries = [c \in Calls |-> 0]
    /\ retry_count = [c \in Calls |-> 0]
    /\ last_error = [c \in Calls |-> NoneExc]
    /\ conn = [c \in Calls |-> IF c = 1 THEN [NoConn EXCEPT !.bound = TRUE] ELSE NoConn]
    /\ cursor = [c \in Calls |->
                    IF c = 1 THEN [NoCursor EXCEPT !.state = "open"] ELSE NoCursor]
    /\ ip = [c \in Calls |-> IF c = 1 THEN 1 ELSE 0]
    /\ fetched = [c \in Calls |-> <<>>]
    /\ result = [c \in Calls |-> NoResult]
    /\ log = [c \in Calls |->
                 IF c = 1
                 THEN <<Entry("connect", "ok",
                              dict_pop_rest(DefaultConfig(DefaultRetryCount),
                                            "connect_retry_count")),
                        Entry("cursor", "ok", EmptyDict),
                        Sent(args[c], Program(args[c])[1], "Error")>>
                 ELSE <<>>]

\* except Error as e / except Exception as e: the exception raised is caught
ExceptError(c) ==
    /\ pc[c] = "except"
    /\ Caught(c, raised[c])
    /\ UNCHANGED <<config_vars, args, db_config, passed, cfg, max_retries,
                   retry_count, last_error, conn, cursor, ip, fetched, log, raised>>

NextClassify == \E c \in Calls : ExceptError(c) \/ Finally(c)

SpecClassify == InitClassify /\ [][NextClassify]_vars

\* the rows of the error classifier's table for each operation, in order:
\* the trigger substrings and the diagnosis
DiagnosisTable(h) ==
    CASE h = "execute_query" ->
            <<[triggers |-> {kw_column, kw_does_not_exist}, suffix |-> "unknown_column"],
              [triggers |-> {kw_relation, kw_does_not_exist}, suffix |-> "table_missing"],
              [triggers |-> {kw_syntax_error}, suffix |-> "syntax"]>>
      [] h = "list_tables" ->
            <<[triggers |-> {kw_permission_denied}, suffix |-> "permission"]>>
      [] h = "describe_table" ->
            <<[triggers |-> {kw_does_not_exist}, suffix |-> "table_missing"],
              [triggers |-> {kw_permission_denied}, suffix |-> "permission"]>>
      [] h = "list_schemas" -> <<>>
      [] h = "create_table" ->
            <<[triggers |-> {kw_already_exists}, suffix |-> "already_exists"],
              [triggers |-> {kw_syntax_error}, suffix |-> "syntax"]>>
      [] h = "insert_data" ->
            <<[triggers |-> {kw_does_not_exist}, suffix |-> "table_missing"],
              [triggers |-> {kw_violates, kw_constraint}, suffix |-> "constraint"],
              [triggers |-> {kw_column, kw_does_not_exist}, suffix |-> "unknown_column"]>>
      [] h = "update_data" ->
            <<[triggers |-> {kw_does_not_exist}, suffix |-> "table_missing"],
              [triggers |-> {kw_column, kw_does_not_exist}, suffix |-> "unknown_column"],
              [triggers |-> {kw_syntax_error}, suffix |-> "syntax"]>>

\* the suffix of the first row all of whose triggers occur in the text
FirstMatch(rows, text) ==
    LET hits == {i \in 1..Len(rows) : \A t \in rows[i].triggers : Mentions(text, t)}
    IN  IF hits = {} THEN "none"
        ELSE rows[CHOOSE i \in hits : \A j \in hits : i <= j].suffix

\* a driver error of call c has been caught and turned into an error object
DriverErrorReported(c) ==
    pc[c] \in {"finally", "done"} /\ result[c].error = "driver"

\* C11: for each operation and each driver error text, the diagnosis appended
\* to the returned error is that of the first row of the operation's table
\* whose triggers all occur in the lower-cased text, and nothing when no row
\* matches.
C11_DiagnosisIsFirstMatchingRow ==
    \A c \in Calls :
        DriverErrorReported(c) =>
            /\ result[c].status = "error"
            /\ result[c].e = raised[c]
            /\ result[c].diag =
                  FirstMatch(DiagnosisTable(args[c].handler), result[c].e.text)

C11_Witness ==
    \E c \in Calls :
        /\ Ended(c)
        /\ args[c].handler = "execute_query"
        /\ result[c].e.text = sf_relation
        /\ result[c].diag = "table_missing"

\* C18: in insert_data and update_data the unknown-column diagnosis is never
\* produced: a text with "column" and "does not exist" matches the earlier
\* "does not exist" rule and gets the target-table-missing diagnosis.
C18_UnknownColumnNeverDiagnosed ==
    \A c \in Calls :
        DriverErrorReported(c) /\ args[c].handler \in {"insert_data", "update_data"} =>
            /\ result[c].diag # "unknown_column"
            /\ (Mentions(result[c].e.text, kw_column)
                   /\ Mentions(result[c].e.text, kw_does_not_exist))
                  => result[c].diag = "table_missing"

C18_Witness ==
    \E c \in Calls :
        /\ Ended(c)
        /\ args[c].handler = "update_data"
        /\ result[c].e.text = sf_Column \o sf_dne
        /\ result[c].diag = "table_missing"

(***************************************************************************)
(* insert_data and update_data on their own, from the point where the      *)
(* connection and the cursor exist, for records of more than one key and   *)
(* for callers' parameter lists.                                           *)
(***************************************************************************)
\* a record with the given keys in the given order; the value of a key is
\* the key's own number plus base
Record(ks, base) ==
    Item(TRUE, ks, [k \in {ks[i] : i \in 1..Len(ks)} |->
                       base + (IF k = "a" THEN 1 ELSE IF k = "b" THEN 2 ELSE 3)])

KeyLists == {<<"a", "b">>, <<"b", "a">>, <<"a">>}

\* the i-th record of a list has the values i * 10 + 1, i * 10 + 2
WriteInsertData ==
    {[shape |-> "dict", items |-> <<Record(ks, 10)>>] : ks \in KeyLists}
      \cup {[shape |-> "list", items |-> [i \in 1..Len(kss) |-> Record(kss[i], i * 10)]] :
                kss \in UNION {[1..n -> KeyLists] : n \in 1..MaxBatch}}

WriteParams == {NoParams, ParamList(<<>>), ParamList(<<7>>), ParamList(<<8, 9>>)}

WriteRequests ==
    {Request("insert_data", "t", <<>>, NoColumns, d, "") : d \in WriteInsertData}
      \cup {[Request("update_data", "t", <<>>, NoColumns,
                     [shape |-> "dict", items |-> <<Record(ks, 10)>>], "id = %s")
                 EXCEPT !.params = ps] : ks \in KeyLists, ps \in WriteParams}

InitWrite ==
    /\ GLOBAL_DB_CONFIG = NoneRef
    /\ heap = [x \in Refs |->
                  IF x = DefaultRef THEN DefaultConfig(DefaultRetryCount) ELSE EmptyDict]
    /\ startup = heap
    /\ \E a \in WriteRequests : args = [c \in Calls |-> IF c = 1 THEN a ELSE NoRequest]
    /\ pc = [c \in Calls |-> IF c = 1 THEN "body" ELSE "idle"]
    /\ db_config = [c \in Calls |-> NoneRef]
    /\ passed = [c \in Calls |-> EmptyDict]
    /\ cfg = [c \in Calls |-> NoneRef]
    /\ max_retries = [c \in Calls |-> 0]
    /\ retry_count = [c \in Calls |-> 0]
    /\ last_error = [c \in Calls |-> NoneExc]
    /\ conn = [c \in Calls |-> IF c = 1 THEN [NoConn EXCEPT !.bound = TRUE] ELSE NoConn]
    /\ cursor = [c \in Calls |->
                    IF c = 1 THEN [NoCursor EXCEPT !.state = "open"] ELSE NoCursor]
    /\ ip = [c \in Calls |-> IF c = 1 THEN 1 ELSE 0]
    /\ fetched = [c \in Calls |-> <<>>]
    /\ result = [c \in Calls |-> NoResult]
    /\ raised = [c \in Calls |-> NoneExc]
    /\ log = [c \in Calls |->
                 IF c = 1
                 THEN <<Entry("connect", "ok",
                              dict_pop_rest(DefaultConfig(DefaultRetryCount),
                                            "connect_retry_count")),
                        Entry("cursor", "ok", EmptyDict)>>
                 ELSE <<>>]

NextWrite ==
    \E c \in Calls : Execute(c) \/ ExecuteMany(c) \/ Commit(c) \/ Finally(c)

SpecWrite == InitWrite /\ [][NextWrite]_vars

\* the records the caller gave insert_data: the single one, or those of the list
Records(a) == IF a.data.shape = "dict" THEN <<a.data.items[1]>> ELSE a.data.items

\* the records share identical keys
SameKeys(recs) == \A i \in 1..Len(recs) : DOMAIN recs[i].d = DOMAIN recs[1].d

\* C12: insert_data given a single record sends a one-row batch; given a list
\* of N records sharing identical keys it sends exactly N rows in one batched
\* insert, each row's values ordered by the key list of the first record,
\* commits once and returns affected_rows = N.
C12_OneBatchOrderedByFirstRecord ==
    \A c \in Calls :
        args[c].handler = "insert_data" =>
            LET recs == Records(args[c])
                N == Len(recs)
                columns == recs[1].keys
                shared == SameKeys(recs)
            IN  /\ Cardinality(Ops(c, "executemany")) <= 1
                /\ Ops(c, "execute") = {}
                /\ \A i \in Ops(c, "executemany") :
                      LET sent == log[c][i].values
                      IN  /\ args[c].data.shape = "dict" => Len(sent) = 1
                          /\ shared =>
                                /\ Len(sent) = N
                                /\ \A r \in 1..N :
                                      /\ Len(sent[r]) = Len(columns)
                                      /\ \A k \in 1..Len(columns) :
                                            sent[r][k] = recs[r].d[columns[k]]
                /\ (pc[c] \in {"finally", "done"}
                       /\ \A i \in 1..Len(log[c]) : log[c][i].out = "ok")
                      => result[c].status = "success"
                /\ (shared /\ result[c].status = "success") =>
                      /\ Cardinality(Ops(c, "executemany")) = 1
                      /\ Cardinality(Ops(c, "commit")) = 1
                      /\ \A i \in Ops(c, "commit") : log[c][i].out = "ok"
                      /\ result[c].affected_rows = N
                      /\ conn[c].closed \/ conn[c].committed = N

C12_Witness ==
    \E c \in Calls :
        /\ Ended(c)
        /\ args[c].handler = "insert_data"
        /\ args[c].data.shape = "list"
        /\ Len(args[c].data.items) = 2
        /\ args[c].data.items[1].keys = <<"a", "b">>
        /\ args[c].data.items[2].keys = <<"b", "a">>
        /\ \E i \in Ops(c, "executemany") :
              log[c][i].values = <<(<<11, 12>>), (<<21, 22>>)>>
        /\ result[c].affected_rows = 2
        /\ Ops(c, "commit") # {}

\* the values of the SET items of an update_data request, in the iteration
\* order of its data mapping
SetItems(a) ==
    LET rec == a.data.items[1]
    IN  [j \in 1..Cardinality(DOMAIN rec.d) |-> rec.d[rec.keys[j]]]

\* the caller's extra params, in their given order
ExtraParams(a) == IF a.params.is_none THEN <<>> ELSE a.params.items

\* what update_data passes to execute: the SET values, then the caller's params
SetValuesThenParams ==
    \A c \in Calls :
        args[c].handler = "update_data" =>
            /\ Ops(c, "executemany") = {}
            /\ Cardinality(Ops(c, "execute")) <= 1
            /\ \A i \in Ops(c, "execute") :
                  log[c][i].values = SetItems(args[c]) \o ExtraParams(args[c])
            /\ (pc[c] \in {"finally", "done"}
                   /\ \A i \in 1..Len(log[c]) : log[c][i].out = "ok")
                  => Cardinality(Ops(c, "execute")) = 1

\* no step of a running call changes the params list its caller passed
ParamsKept ==
    \A c \in Calls :
        pc[c] \notin {"idle", "pending"} /\ pc'[c] # "idle"
            => args'[c].params = args[c].params

\* C13: in update_data the parameter sequence passed to execute is the SET
\* values, in the iteration order of the data mapping and one per SET item,
\* followed by the caller's extra params in their order; no condition
\* parameter precedes a SET value, and the caller's params list is unchanged.
C13_SetValuesBeforeParams == []SetValuesThenParams /\ [][ParamsKept]_vars

C13_Witness ==
    \E c \in Calls :
        /\ Ended(c)
        /\ args[c].handler = "update_data"
        /\ args[c].data.items[1].keys = <<"b", "a">>
        /\ args[c].params = ParamList(<<8, 9>>)
        /\ \E i \in Ops(c, "execute") :
              log[c][i].out = "ok" /\ log[c][i].values = <<12, 11, 8, 9>>
        /\ result[c].status = "success"

\* every call has returned or has not been started
AllReturned == \A c \in Calls : pc[c] \in {"idle", "pending", "done"}

\* C14: with any number of calls in flight, each call opens at most one
\* connection, the driver calls on a connection are those of the call that
\* opened it, and once all calls have returned no connection opened by any of
\* them is still open.
C14_OwnConnectionReleased ==
    /\ \A c \in Calls :
          /\ Cardinality({i \in Ops(c, "connect") : log[c][i].out = "ok"}) <= 1
          /\ \A i \in 1..Len(log[c]) :
                log[c][i].op \notin {"connect", "print"} =>
                    \E j \in Ops(c, "connect") : j < i /\ log[c][j].out = "ok"
          /\ conn[c].bound <=> \E j \in Ops(c, "connect") : log[c][j].out = "ok"
    /\ AllReturned => \A c \in Calls : conn[c].bound => conn[c].closed

\* the connect attempt logged at index i of call c succeeded
Succeeded(c, i) == log[c][i].op = "connect" /\ log[c][i].out = "ok"

\* get_connection of call c returned after k attempts: the connection is the
\* caller's, no attempt follows and no connection error is raised
ReturnsAtAttempt(c, i) ==
    /\ conn[c].bound
    /\ \A j \in Ops(c, "connect") : j <= i
    /\ Cardinality(Ops(c, "connect")) <= Max(Expected(c, "connect_retry_count"), 0)
    /\ result[c].e.attempts = 0 - 1
    /\ \A j \in Ops(c, "connect") : j < i => log[c][j].out = "Error"

\* C15: if the connect call first succeeds on attempt k, 1 <= k <= N,
\* get_connection returns that connection after exactly k attempts: no further
\* attempt, no error, and the k-1 earlier failures leave no effect visible to
\* the caller (nothing but the k connect calls has been done).
C15_EarlierFailuresLeaveNoEffect ==
    \A c \in Calls : \A i \in 1..Len(log[c]) :
        Succeeded(c, i) =>
            /\ ReturnsAtAttempt(c, i)
            /\ \A j \in 1..(i - 1) : log[c][j].op = "connect"

(***************************************************************************)
(* The retry loop runs inside a handler that never yields: once            *)
(* get_connection has been entered, its next iteration or its exit is      *)
(* taken.                                                                  *)
(***************************************************************************)
FirstCall == {c \in Calls : \A d \in Calls : c <= d}

\* the steps of a single call
NextLoop ==
    \E c \in FirstCall :
        \/ Submit(c)
        \/ Call(c)
        \/ Resolve(c)
        \/ ConnectAttempt(c)
        \/ ConnectExhausted(c)
        \/ CreateCursor(c)
        \/ Execute(c)
        \/ ExecuteMany(c)
        \/ FetchAll(c)
        \/ Commit(c)
        \/ Finally(c)
        \/ Return(c)

SpecLoop ==
    /\ Init
    /\ [][NextLoop]_vars
    /\ \A c \in FirstCall : WF_vars(ConnectAttempt(c) \/ ConnectExhausted(c))

\* the connect attempts of call c that failed
FailedAttempts(c) == {i \in Ops(c, "connect") : log[c][i].out # "ok"}

\* the step is a connect attempt of call c that failed
FailedAttemptStep(c) ==
    /\ Len(log'[c]) > Len(log[c])
    /\ Len(log[c]) + 1 \in {i \in 1..Len(log'[c]) :
                                log'[c][i].op = "connect" /\ log'[c][i].out # "ok"}

\* the loop of call c ends, by a connection returned or by an exception raised
LoopEnds(c) ==
    (pc[c] = "connect") ~> (pc[c] # "connect" /\ (conn[c].bound \/ result[c].status = "error"))

\* at most max(N, 0) attempts are made
AttemptsBounded(c) ==
    Cardinality(Ops(c, "connect")) <= Max(Expected(c, "connect_retry_count"), 0)

\* C16 as stated: for every N and every pattern of successes and failures the
\* loop ends after at most max(N, 0) attempts, returning or raising; the
\* attempt counter increases by one per failed attempt and never exceeds N.
C16_CounterNeverExceedsN ==
    /\ \A c \in Calls : LoopEnds(c)
    /\ [](\A c \in Calls :
            /\ Ops(c, "connect") # {} => AttemptsBounded(c)
            /\ pc[c] = "connect" => retry_count[c] <= Expected(c, "connect_retry_count"))
    /\ [][\A c \in Calls : FailedAttemptStep(c) => retry_count'[c] = retry_count[c] + 1]_vars

\* C16 amended: the counter increases by one per attempt that fails with a
\* driver error and never exceeds max(N, 0); an attempt that fails with
\* another exception ends the loop at once.
C16_CounterNeverExceedsMaxN0 ==
    /\ \A c \in Calls : LoopEnds(c)
    /\ [](\A c \in Calls :
            /\ Ops(c, "connect") # {} => AttemptsBounded(c)
            /\ pc[c] = "connect" =>
                  /\ retry_count[c] <= Max(Expected(c, "connect_retry_count"), 0)
                  /\ retry_count[c] = Cardinality(FailedAttempts(c))
                  /\ \A i \in FailedAttempts(c) : log[c][i].out = "Error")
    /\ [][\A c \in Calls :
            FailedAttemptStep(c) =>
                IF log'[c][Len(log[c]) + 1].out = "Error"
                THEN pc'[c] = "connect" /\ retry_count'[c] = retry_count[c] + 1
                ELSE pc'[c] # "connect" /\ result'[c].status = "error"]_vars

C16_Witness ==
    \E c \in Calls :
        /\ pc[c] = "connect"
        /\ Expected(c, "connect_retry_count") = 2
        /\ retry_count[c] = 2
        /\ Cardinality(FailedAttempts(c)) = 2

\* call c made no driver call but its connect attempts
NothingButConnects(c) ==
    \A i \in 1..Len(log[c]) : log[c][i].op \in {"connect", "print"}

\* C17 as stated: when connection acquisition fails inside a handler, the
\* handler creates no cursor, executes no statement, issues no commit and no
\* close, and returns an error object whose message contains the connection
\* error text (attempt count and last raw cause).
C17_ReturnsConnectionErrorText ==
    \A c \in Calls :
        AcquisitionFailed(c) =>
            /\ NothingButConnects(c)
            /\ result[c].status = "error"
            /\ result[c].error = "unknown"
            /\ result[c].e.attempts = Cardinality(Ops(c, "connect"))
            /\ result[c].e.text = str(raised[c])

\* C17 amended: the message contains the text of the exception that
\* get_connection raised: the connection error (attempt count and last raw
\* cause) when driver errors used up the retries, the connect call's own
\* exception when it raised one that is not a driver error.
C17_ReturnsRaisedText ==
    \A c \in Calls :
        AcquisitionFailed(c) =>
            /\ NothingButConnects(c)
            /\ result[c].status = "error"
            /\ result[c].error = "unknown"
            /\ IF \A i \in Ops(c, "connect") : log[c][i].out = "Error"
               THEN /\ result[c].e.cls = "Exception"
                    /\ result[c].e.attempts = Cardinality(Ops(c, "connect"))
                    /\ result[c].e.text = str(raised[c])
               ELSE result[c].e = raised[c] /\ raised[c].cls = "Exception"

C17_Witness ==
    \E c \in Calls :
        /\ Ended(c)
        /\ AcquisitionFailed(c)
        /\ args[c].handler = "update_data"
        /\ Cardinality(Ops(c, "connect")) = 2
        /\ result[c].e.attempts = 2
        /\ result[c].e.text = txt_refused
        /\ result[c].error = "unknown"

\* call c has gone through get_connection
Acquired(c) ==
    /\ pc[c] \in {"connect", "cursor", "body", "finally", "done"}
    /\ Validate(args[c]) = "ok"

\* C19: when the resolved connect_retry_count is 0 or negative, get_connection
\* makes no connect attempt and raises the connection error with attempt
\* count 0 and no recorded cause; it never returns a connection.
C19_NoAttemptWhenCountNotPositive ==
    \A c \in Calls :
        Acquired(c) /\ Expected(c, "connect_retry_count") <= 0 =>
            /\ log[c] = <<>>
            /\ ~conn[c].bound
            /\ pc[c] \in {"connect", "finally", "done"}
            /\ pc[c] = "connect" => retry_count[c] = 0 /\ last_error[c] = NoneExc
            /\ pc[c] \in {"finally", "done"} =>
                  /\ result[c].status = "error"
                  /\ result[c].e.cls = "Exception"
                  /\ result[c].e.attempts = 0
                  /\ result[c].e.text = str_None
                  /\ result[c].e.hint = "none"

C19_Witness ==
    \E c \in Calls :
        /\ Ended(c)
        /\ Acquired(c)
        /\ Expected(c, "connect_retry_count") = 0 - 1
        /\ result[c].e.attempts = 0
        /\ result[c].e.text = str_None
        /\ log[c] = <<>>

\* C20: only driver errors are retried: if the connect call raises any other
\* exception, get_connection propagates it on that first occurrence with no
\* further attempt, whatever the retry budget left, and the calling handler
\* returns it as an unknown-error object.
C20_OtherExceptionNotRetried ==
    \A c \in Calls : \A i \in Ops(c, "connect") :
        /\ (\E j \in Ops(c, "connect") : i < j) => log[c][i].out = "Error"
        /\ log[c][i].out = "Exception" =>
              /\ i = Len(log[c])
              /\ ~conn[c].bound
              /\ pc[c] \in {"finally", "done"}
              /\ result[c].status = "error"
              /\ result[c].error = "unknown"
              /\ result[c].e = raised[c]
              /\ result[c].e.cls = "Exception"
              /\ result[c].e.attempts = 0 - 1

C20_Witness ==
    \E c \in Calls :
        /\ Ended(c)
        /\ Expected(c, "connect_retry_count") = 2
        /\ Cardinality(Ops(c, "connect")) = 1
        /\ \E i \in Ops(c, "connect") : log[c][i].out = "Exception"
        /\ args[c].handler = "list_tables"
        /\ result[c].error = "unknown"
        /\ result[c].e.text = txt_other

====
